---- MODULE Spec2Model ----
(***************************************************************************)
(* Credential and token lifecycle of the auth-verification-service: the    *)
(* Express controllers (signup, verifyEmail, login, logout,                *)
(* forgotPassword, resetPassword, checkAuth), the Mongoose User model, the *)
(* token utilities and the route guards of the React frontend.             *)
(*                                                                         *)
(* A controller is an async function: it runs without interruption up to   *)
(* each `await` on the database or the mailer, and other requests run in   *)
(* between.  Every action below is one such uninterrupted stretch, ending  *)
(* with the database operation (or mail dispatch) it awaits.  bcrypt calls *)
(* touch no shared state and are folded into the stretch that follows.     *)
(*                                                                         *)
(* Time is counted in hours.  Mongoose's createdAt/updatedAt timestamps,   *)
(* the schema's `trim` option, the rate limiters and the browser's         *)
(* eviction of a cookie past its maxAge are not modelled.                  *)
(*                                                                         *)
(* The frontend is one page per client: the useAuthStore state, the        *)
(* router's location and the element App renders.  A store action is two   *)
(* steps, the call up to its request and the handling of the response;     *)
(* the request itself is served by the controllers above.                  *)
(***************************************************************************)
EXTENDS FiniteSets, Integers, Sequences, TLC

\* ------------------------------------------------------------------ bounds
MaxUsers == 2          \* documents the collection may hold
MaxRequests == 4       \* requests served in one behaviour
MaxTicks == 1          \* clock advances in one behaviour
MaxResetTokens == 2    \* reset tokens generated in one behaviour

\* ------------------------------------------------------- program constants
VerificationTTL == 24  \* 24 * 60 * 60 * 1000 ms
ResetTTL == 1          \* 60 * 60 * 1000 ms
SessionTTL == 336      \* expiresIn: "14d"
MsPerHour == 3600000               \* 60 * 60 * 1000
CookieMaxAgeMs == 1209600000       \* res.cookie maxAge: 14 * 24 * 60 * 60 * 1000
CookieMaxAge == CookieMaxAgeMs \div MsPerHour
MinPasswordLength == 6 \* resetPassword: password.length < 6
CodeDigits == 6        \* padStart(6, "0")
EmailMaxLength == 50   \* userSchema email maxLength
NameMinLength == 2     \* userSchema name minLength
NameMaxLength == 30    \* userSchema name maxLength
DigestMinLength == 6   \* userSchema password minLength, applied to what is stored
BcryptLength == 60     \* characters of a bcrypt digest

\* ------------------------------------------------------------ input values
Clients == {"c1", "c2"}            \* browsers, one request at a time each
Emails == {"a@x.com", "b@x.com"}
Passwords == {"secret1", "longenough1"}
ShortPassword == "short"           \* 5 characters
Names == {"Ann"}
ShortName == "A"                                            \* 1 character
LongName == "Maximilian Alexander Montgomery"               \* 31 characters
LongEmail == "maximilian.alexander.montgomery@mail.example.com.au" \* 51 characters
Salts == {"saltA", "saltB"}        \* outcomes of bcrypt.genSalt
RandomInts == {7, 123456}          \* outcomes of crypto.randomInt
TickSteps == {1, 24, 25}           \* hours the clock may jump
LifetimeSteps == {335, 336}        \* an hour short of 14 days, and 14 days
JWT_SECRET == "secret"

\* absent values (JavaScript undefined / null), one per type
NoUser == [id |-> 0]       \* findOne found nothing
NoToken == 0               \* resetPasswordToken undefined
NoCode == <<>>             \* verificationToken undefined
NoDate == -1               \* an expiry date undefined
NoDigest == <<>>           \* password: undefined in a response
NoResponse == [status |-> 0]
NoRequest == [op |-> "none"]
NoCookie == [id |-> 0, name |-> "", exp |-> 0, key |-> ""]

VARIABLES
    users,        \* the users collection, in natural (insertion) order
    pc,           \* per client: "idle" or the await its request is suspended at
    req,          \* per client: its latest request
    user,         \* per client: the document its handler holds in memory
    resp,         \* per client: the response to its latest request
    cookie,       \* per client: the jwt cookie of its browser
    now,          \* Date.now()
    ticks,        \* clock advances so far
    nreq,         \* requests so far
    last,         \* the client whose request arrived last
    verifyLog,    \* history: the verification code issued to each account id
    passwordLog,  \* history: the plaintext last saved for each account id
    resetLog,     \* history: per reset token, the account and time it was
                  \* generated for and whether a reset was saved with it
    call,         \* per client: the store actions its page is waiting for,
                  \* in the order of their calls, each with the page it
                  \* was called from
    store,        \* per client: the state of the page's useAuthStore
    location,     \* per client: the path of the page's router
    element       \* per client: the element App rendered last

frontend == <<store, location, element>>

vars == <<users, pc, req, user, resp, cookie, now, ticks, nreq, last, verifyLog, passwordLog,
          resetLog, call, store, location, element>>

\* --------------------------------------------------------- token utilities
\* generateVerificationToken: randomInt(0, 1_000_000).toString().padStart(6, "0")
generateVerificationToken(n) ==
    [i \in 1..CodeDigits |-> (n \div (10 ^ (CodeDigits - i))) % 10]

VerificationCodes == {generateVerificationToken(n) : n \in RandomInts}

\* mutant: the token is signed with expiresIn: "1d"
generateTokenOneDay(u, t) ==
    [id |-> u.id, name |-> u.name, exp |-> t + 24, key |-> JWT_SECRET]

\* generateTokenAndSetCookie: jwt.sign({id, name}, JWT_SECRET, {expiresIn: "14d"})
generateTokenAndSetCookie(u, t) ==
    [id |-> u.id, name |-> u.name, exp |-> t + SessionTTL, key |-> JWT_SECRET]

\* bcrypt.hash(password, salt): the digest embeds the salt
Hash(password, salt) == <<"$2b$10$", salt, password>>

\* bcrypt.compare(password, digest)
Compare(password, digest) == digest # NoDigest /\ Hash(password, digest[2]) = digest

\* ---------------------------------------------------------------- the store
\* new User({...}): schema defaults for the fields not given
NewUser(id, email, digest, name, code, t) ==
    [id |-> id, email |-> email, password |-> digest, name |-> name,
     lastLogin |-> t, isVerified |-> FALSE,
     resetPasswordToken |-> NoToken, resetPasswordExpires |-> NoDate,
     verificationToken |-> code, verificationTokenExpires |-> t + VerificationTTL]

\* the schema's validators, run by save(): required, minLength, maxLength;
\* the password path holds the bcrypt digest
Validate(doc) ==
    /\ doc.email # "" /\ Len(doc.email) <= EmailMaxLength
    /\ doc.password # NoDigest /\ BcryptLength >= DigestMinLength
    /\ doc.name # "" /\ Len(doc.name) >= NameMinLength /\ Len(doc.name) <= NameMaxLength

\* User.findOne(filter): the first in natural order of the documents that match
FindOne(docs, hits) ==
    IF hits = {} THEN NoUser
    ELSE docs[CHOOSE i \in hits : \A j \in hits : i <= j]

FindByEmail(docs, email) ==
    FindOne(docs, {i \in 1..Len(docs) : docs[i].email = email})

\* mutant: the lookup is by code alone, whatever its expiry
FindByVerificationTokenAnyTime(docs, code, t) ==
    FindOne(docs, {i \in 1..Len(docs) : docs[i].verificationToken = code})

\* mutant: a code is still accepted at the instant of its expiry
FindByVerificationTokenInclusive(docs, code, t) ==
    FindOne(docs, {i \in 1..Len(docs) :
                     /\ docs[i].verificationToken = code
                     /\ docs[i].verificationTokenExpires # NoDate
                     /\ docs[i].verificationTokenExpires >= t})

\* User.findOne({verificationToken, verificationTokenExpires: {$gt: Date.now()}})
FindByVerificationToken(docs, code, t) ==
    FindOne(docs, {i \in 1..Len(docs) :
                     /\ docs[i].verificationToken = code
                     /\ docs[i].verificationTokenExpires # NoDate
                     /\ docs[i].verificationTokenExpires > t})

\* mutant: a token is still accepted at the instant of its expiry
FindByResetTokenInclusive(docs, token, t) ==
    FindOne(docs, {i \in 1..Len(docs) :
                     /\ docs[i].resetPasswordToken = token
                     /\ docs[i].resetPasswordExpires # NoDate
                     /\ docs[i].resetPasswordExpires >= t})

\* User.findOne({resetPasswordToken, resetPasswordExpires: {$gt: Date.now()}})
FindByResetToken(docs, token, t) ==
    FindOne(docs, {i \in 1..Len(docs) :
                     /\ docs[i].resetPasswordToken = token
                     /\ docs[i].resetPasswordExpires # NoDate
                     /\ docs[i].resetPasswordExpires > t})

FindById(docs, id) ==
    FindOne(docs, {i \in 1..Len(docs) : docs[i].id = id})

\* doc.save() of a loaded document: one updateOne({_id}, {$set/$unset}) of
\* the modified paths only; the other paths keep what the store holds
SaveModified(docs, doc, paths) ==
    [i \in 1..Len(docs) |->
        IF docs[i].id = doc.id
        THEN [f \in DOMAIN docs[i] |-> IF f \in paths THEN doc[f] ELSE docs[i][f]]
        ELSE docs[i]]

\* doc.save() of a new document: insertOne; the schema declares no unique index
Insert(docs, doc) == Append(docs, doc)

\* ---------------------------------------------------------------- responses
Response(status, message, u) == [status |-> status, message |-> message, user |-> u]

Idle(c) == pc[c] = "idle"

\* a request arrives on an idle client's connection; while the page has
\* store actions waiting, the next request of the browser is that of the
\* action called first
Begin(c, r) ==
    /\ Idle(c)
    /\ nreq < MaxRequests
    /\ nreq' = nreq + 1
    /\ req' = [req EXCEPT ![c] = r]
    /\ last' = c
    /\ call[c] # <<>> => (call[c][1].op = r.op /\ ~call[c][1].sent)
    /\ call' = IF call[c] = <<>> THEN call ELSE [call EXCEPT ![c][1].sent = TRUE]

\* res.status(..).json(..): the handler returns and its locals are gone
Reply(c, r) ==
    /\ pc' = [pc EXCEPT ![c] = "idle"]
    /\ resp' = [resp EXCEPT ![c] = r]
    /\ user' = [user EXCEPT ![c] = NoUser]

\* the handler suspends at an await holding the document u
Await(c, label, u) ==
    /\ pc' = [pc EXCEPT ![c] = label]
    /\ resp' = [resp EXCEPT ![c] = NoResponse]
    /\ user' = [user EXCEPT ![c] = u]

\* ------------------------------------------------------------ the frontend
Null == ""                             \* null of error and message
MaxCalls == 2                          \* store actions one page waits for at a time

\* useAuthStore: the initial state
InitialStore ==
    [user |-> NoUser, isAuthenticated |-> FALSE, isLoading |-> FALSE,
     isCheckingAuth |-> TRUE, error |-> Null, message |-> Null]

Paths == {"/", "/signup", "/login", "/verify-email"}

Element(type) == [type |-> type, to |-> ""]
Navigate(to) == [type |-> "Navigate", to |-> to]

\* `user?.isVerified`
userIsVerified(u) == "isVerified" \in DOMAIN u /\ u.isVerified

\* mutant: the guard lets every authenticated user through
ProtectedRouteAnyUser(s, children) ==
    IF ~s.isAuthenticated THEN Navigate("/login") ELSE children

\* mutant: the guard sends unverified users to the login page
ProtectedRouteToLogin(s, children) ==
    IF ~s.isAuthenticated THEN Navigate("/login")
    ELSE IF ~userIsVerified(s.user) THEN Navigate("/login")
    ELSE children

\* App.tsx ProtectedRoute
ProtectedRoute(s, children) ==
    IF ~s.isAuthenticated THEN Navigate("/login")
    ELSE IF ~userIsVerified(s.user) THEN Navigate("/verify-email")
    ELSE children

\* App.tsx RedirectAuthenticatedUser
RedirectAuthenticatedUser(s, children) ==
    IF s.isAuthenticated /\ userIsVerified(s.user) THEN Navigate("/") ELSE children

\* App.tsx <Routes>
Routes(s, path) ==
    CASE path = "/" -> ProtectedRoute(s, Element("Home"))
      [] path = "/signup" -> RedirectAuthenticatedUser(s, Element("SignUp"))
      [] path = "/login" -> RedirectAuthenticatedUser(s, Element("Login"))
      [] path = "/verify-email" -> Element("EmailVerificationPage")
      [] path = "/forgot-password" ->
            RedirectAuthenticatedUser(s, Element("ForgotPasswordPage"))
      [] path = "/reset-password" -> Element("ResetPasswordPage")
      [] OTHER -> Element("NotFound")

\* App: the spinner while isCheckingAuth, the routes afterwards
Render(s, path) ==
    IF s.isCheckingAuth THEN Element("LoadingSpinner") ELSE Routes(s, path)

\* the page each store action is called from
CalledFrom(op) ==
    CASE op = "checkAuth" -> "LoadingSpinner"
      [] op = "signup" -> "SignUp"
      [] op = "login" -> "Login"
      [] op = "logout" -> "Home"
      [] op = "verifyEmail" -> "EmailVerificationPage"
      [] op = "forgotPassword" -> "ForgotPasswordPage"
      [] op = "resetPassword" -> "ResetPasswordPage"

\* a store action up to its `await api...`
Called(s, op) ==
    CASE op = "checkAuth" -> [s EXCEPT !.isCheckingAuth = TRUE, !.error = Null]
      [] op \in {"forgotPassword", "resetPassword"} ->
            [s EXCEPT !.isLoading = TRUE, !.error = Null, !.message = Null]
      [] OTHER -> [s EXCEPT !.isLoading = TRUE, !.error = Null]

\* axios resolves on a 2xx status and throws on any other
Ok(r) == r.status >= 200 /\ r.status < 300

\* a store action from the response of its request on
Settled(s, op, r) ==
    LET ok == Ok(r)
    IN CASE op = "checkAuth" ->
              IF ok THEN [s EXCEPT !.user = r.user, !.isAuthenticated = TRUE,
                                   !.isCheckingAuth = FALSE]
              ELSE [s EXCEPT !.error = Null, !.isAuthenticated = FALSE,
                             !.isCheckingAuth = FALSE]
         [] op \in {"signup", "login", "verifyEmail"} ->
              IF ok THEN [s EXCEPT !.user = r.user, !.isAuthenticated = TRUE,
                                   !.isLoading = FALSE]
              ELSE [s EXCEPT !.error = r.message, !.isLoading = FALSE]
         [] op = "logout" ->
              IF ok THEN [s EXCEPT !.user = NoUser, !.isAuthenticated = FALSE,
                                   !.isLoading = FALSE]
              ELSE [s EXCEPT !.error = r.message, !.isLoading = FALSE]
         [] OTHER ->
              IF ok THEN [s EXCEPT !.isLoading = FALSE, !.message = r.message]
              ELSE [s EXCEPT !.error = r.message, !.isLoading = FALSE]

\* the store actions the pages call from a SubmitButton, which is disabled
\* while isLoading
Submitted == {"signup", "login", "verifyEmail", "forgotPassword", "resetPassword"}

\* the page calls a store action: App on mount checkAuth, Home on a click of
\* its button logout, the other pages theirs on submit
StoreCall(c, ops) ==
    \E op \in ops :
        /\ Len(call[c]) < MaxCalls
        /\ element[c].type = CalledFrom(op)
        /\ op = "checkAuth" => (store[c].isCheckingAuth /\ call[c] = <<>>)
        /\ op \in Submitted => ~store[c].isLoading
        /\ call' = [call EXCEPT ![c] = Append(call[c],
                        [op |-> op, sent |-> FALSE, from |-> element[c].type])]
        /\ store' = [store EXCEPT ![c] = Called(store[c], op)]
        /\ element' = [element EXCEPT ![c] = Render(store'[c], location[c])]
        /\ UNCHANGED <<users, pc, req, user, resp, cookie, now, ticks, nreq, last,
                       verifyLog, passwordLog, resetLog, location>>

\* some component calls a store action: useAuthStore hands every action to
\* every component
StoreCallDirect(c, ops) ==
    \E op \in ops :
        /\ Len(call[c]) < MaxCalls
        /\ call' = [call EXCEPT ![c] = Append(call[c],
                        [op |-> op, sent |-> FALSE, from |-> ""])]
        /\ store' = [store EXCEPT ![c] = Called(store[c], op)]
        /\ element' = [element EXCEPT ![c] = Render(store'[c], location[c])]
        /\ UNCHANGED <<users, pc, req, user, resp, cookie, now, ticks, nreq, last,
                       verifyLog, passwordLog, resetLog, location>>

\* the response of the request of the store action called first is in: the
\* action sets the store, and SignUp.tsx goes on to navigate("/verify-email")
StoreSettle(c) ==
    /\ call[c] # <<>>
    /\ call[c][1].sent
    /\ Idle(c)
    /\ call' = [call EXCEPT ![c] = Tail(call[c])]
    /\ store' = [store EXCEPT ![c] = Settled(store[c], call[c][1].op, resp[c])]
    /\ location' = [location EXCEPT ![c] =
                        IF call[c][1].op = "signup" /\ Ok(resp[c])
                           /\ call[c][1].from = "SignUp"
                        THEN "/verify-email" ELSE location[c]]
    /\ element' = [element EXCEPT ![c] = Render(store'[c], location'[c])]
    /\ UNCHANGED <<users, pc, req, user, resp, cookie, now, ticks, nreq, last,
                   verifyLog, passwordLog, resetLog>>

\* the user follows a link or enters an address
Visit(c, paths) ==
    \E path \in paths :
        /\ path # location[c]
        /\ location' = [location EXCEPT ![c] = path]
        /\ element' = [element EXCEPT ![c] = Render(store[c], path)]
        /\ UNCHANGED <<users, pc, req, user, resp, cookie, now, ticks, nreq, last,
                       verifyLog, passwordLog, resetLog, call, store>>

\* the effect of a rendered <Navigate to=.. replace />
NavigateEffect(c) ==
    /\ element[c].type = "Navigate"
    /\ location' = [location EXCEPT ![c] = element[c].to]
    /\ element' = [element EXCEPT ![c] = Render(store[c], element[c].to)]
    /\ UNCHANGED <<users, pc, req, user, resp, cookie, now, ticks, nreq, last,
                   verifyLog, passwordLog, resetLog, call, store>>

\* -------------------------------------------------------------------- Init
Init ==
    /\ users = <<>>
    /\ pc = [c \in Clients |-> "idle"]
    /\ req = [c \in Clients |-> NoRequest]
    /\ user = [c \in Clients |-> NoUser]
    /\ resp = [c \in Clients |-> NoResponse]
    /\ cookie = [c \in Clients |-> NoCookie]
    /\ now = 0
    /\ ticks = 0
    /\ nreq = 0
    /\ last = ""
    /\ verifyLog = <<>>
    /\ passwordLog = <<>>
    /\ resetLog = <<>>
    /\ call = [c \in Clients |-> <<>>]
    /\ store = [c \in Clients |-> InitialStore]
    /\ location = [c \in Clients |-> "/"]
    /\ element = [c \in Clients |-> Render(InitialStore, "/")]

\* the clock
Tick ==
    /\ ticks < MaxTicks
    /\ \E d \in TickSteps : now' = now + d
    /\ ticks' = ticks + 1
    /\ UNCHANGED <<users, pc, req, user, resp, cookie, nreq, last, verifyLog, passwordLog, resetLog, call, frontend>>

\* the clock, in jumps of the given lengths
Elapse(steps) ==
    /\ ticks < MaxTicks
    /\ \E d \in steps : now' = now + d
    /\ ticks' = ticks + 1
    /\ UNCHANGED <<users, pc, req, user, resp, cookie, nreq, last, verifyLog, passwordLog, resetLog, call, frontend>>

\* ------------------------------------------------------------------ signup
\* mutant: signup does not look the email up before it creates the account
SignupCheckNoLookup(c, ctl, email, password, name) ==
    /\ Begin(c, [op |-> "signup", ctl |-> ctl, email |-> email, password |-> password,
                  name |-> name])
    /\ IF email = "" \/ password = "" \/ name = ""
       THEN Reply(c, Response(400, "All fields are required", NoUser))
       ELSE Await(c, "signup_save", NoUser)
    /\ UNCHANGED <<users, cookie, now, ticks, verifyLog, passwordLog, resetLog, frontend>>

\* signup up to `await User.findOne({ email })` and the branches on its result
SignupCheck(c, ctl, email, password, name) ==
    /\ Begin(c, [op |-> "signup", ctl |-> ctl, email |-> email, password |-> password,
                  name |-> name])
    /\ IF email = "" \/ password = "" \/ name = ""
       THEN Reply(c, Response(400, "All fields are required", NoUser))
       ELSE IF FindByEmail(users, email).id # 0
       THEN Reply(c, Response(409, "Email already exists", NoUser))
       ELSE Await(c, "signup_save", NoUser)
    /\ UNCHANGED <<users, cookie, now, ticks, verifyLog, passwordLog, resetLog, frontend>>

\* new mongoose ObjectId: never used before
NewObjectId == Len(verifyLog) + 1

\* mutant: the document is created without its verification pair
SignupSaveNoToken(c, salt, n) ==
    /\ pc[c] = "signup_save"
    /\ Len(users) < MaxUsers
    /\ LET newUser == [NewUser(NewObjectId, req[c].email, Hash(req[c].password, salt),
                               req[c].name, generateVerificationToken(n), now)
                          EXCEPT !.verificationToken = NoCode,
                                 !.verificationTokenExpires = NoDate]
       IN /\ cookie' = [cookie EXCEPT ![c] = generateTokenAndSetCookie(newUser, now)]
          /\ users' = Insert(users, newUser)
          /\ Await(c, "signup_mail", newUser)
    /\ verifyLog' = Append(verifyLog, generateVerificationToken(n))
    /\ passwordLog' = Append(passwordLog, req[c].password)
    /\ UNCHANGED <<req, now, ticks, nreq, last, resetLog, call, frontend>>

\* signup from bcrypt.genSalt to `await newUser.save()`: the cookie is set
\* before the save; a document the schema refuses is not inserted, and the
\* catch block answers 400 in auth.controller.js, 500 in signup.controller.js.
\* The logs get one entry per document constructed.
SignupSave(c, salt, n) ==
    /\ pc[c] = "signup_save"
    /\ Len(users) < MaxUsers
    /\ LET newUser == NewUser(NewObjectId, req[c].email, Hash(req[c].password, salt),
                              req[c].name, generateVerificationToken(n), now)
       IN /\ cookie' = [cookie EXCEPT ![c] = generateTokenAndSetCookie(newUser, now)]
          /\ IF Validate(newUser)
             THEN /\ users' = Insert(users, newUser)
                  /\ Await(c, "signup_mail", newUser)
             ELSE /\ users' = users
                  /\ IF req[c].ctl = "auth"
                     THEN Reply(c, Response(400, "User validation failed", NoUser))
                     ELSE Reply(c, Response(500, "Internal server error", NoUser))
    /\ verifyLog' = Append(verifyLog, generateVerificationToken(n))
    /\ passwordLog' = Append(passwordLog, req[c].password)
    /\ UNCHANGED <<req, now, ticks, nreq, last, resetLog, call, frontend>>

\* the user object of signup's 201 response
signupUser(doc) ==
    [doc EXCEPT !.password = NoDigest, !.verificationToken = NoCode,
                !.verificationTokenExpires = NoDate]

\* mutant: when the verification mail is not delivered the account is removed
SignupMailRollsBack(c, delivered) ==
    /\ pc[c] = "signup_mail"
    /\ IF delivered
       THEN /\ Reply(c, Response(201, "User registered successfully", signupUser(user[c])))
            /\ users' = users
       ELSE /\ Reply(c, Response(500, "Internal server error", NoUser))
            /\ users' = SelectSeq(users, LAMBDA a : a.id # user[c].id)
    /\ UNCHANGED <<req, cookie, now, ticks, nreq, last, verifyLog, passwordLog, resetLog, call, frontend>>

\* signup from `await sendVerificationEmail` to the response
SignupMail(c, delivered) ==
    /\ pc[c] = "signup_mail"
    /\ IF delivered
       THEN Reply(c, Response(201, "User registered successfully", signupUser(user[c])))
       ELSE Reply(c, Response(500, "Internal server error", NoUser))
    /\ UNCHANGED <<users, req, cookie, now, ticks, nreq, last, verifyLog, passwordLog, resetLog, call, frontend>>

signup(c, ctls, emails, passwords, names, salts, ints) ==
    \/ \E k \in ctls, e \in emails, p \in passwords, n \in names : SignupCheck(c, k, e, p, n)
    \/ \E s \in salts, n \in ints : SignupSave(c, s, n)
    \/ \E ok \in BOOLEAN : SignupMail(c, ok)

\* mutant: the lookup is by code alone and an expired code gets its own answer
VerifyFindTellsExpired(c, ctl, code) ==
    /\ Begin(c, [op |-> "verifyEmail", ctl |-> ctl, code |-> code])
    /\ LET u == FindOne(users, {i \in 1..Len(users) : users[i].verificationToken = code})
       IN IF u.id = 0
          THEN Reply(c, Response(400, "Invalid or expired verification token", NoUser))
          ELSE IF ~(u.verificationTokenExpires > now)
          THEN Reply(c, Response(400, "Verification token expired", NoUser))
          ELSE Await(c, "verify_save", u)
    /\ UNCHANGED <<users, cookie, now, ticks, verifyLog, passwordLog, resetLog, frontend>>

\* verifyEmail up to `await User.findOne({verificationToken, ...$gt: Date.now()})`
VerifyFind(c, ctl, code) ==
    /\ Begin(c, [op |-> "verifyEmail", ctl |-> ctl, code |-> code])
    /\ LET u == FindByVerificationToken(users, code, now)
       IN IF u.id = 0
          THEN Reply(c, Response(400, "Invalid or expired verification token", NoUser))
          ELSE Await(c, "verify_save", u)
    /\ UNCHANGED <<users, cookie, now, ticks, verifyLog, passwordLog, resetLog, frontend>>

\* mutant: the save clears the code but not its expiry
VerifySaveTokenOnly(c) ==
    /\ pc[c] = "verify_save"
    /\ LET u == [user[c] EXCEPT !.isVerified = TRUE, !.verificationToken = NoCode,
                                !.verificationTokenExpires = NoDate]
       IN /\ users' = SaveModified(users, u, {"isVerified", "verificationToken"})
          /\ Await(c, "verify_mail", u)
    /\ UNCHANGED <<req, cookie, now, ticks, nreq, last, verifyLog, passwordLog, resetLog, call, frontend>>

\* mutant: the save writes back every path of the document verifyEmail loaded
VerifySaveWholeDocument(c) ==
    /\ pc[c] = "verify_save"
    /\ LET u == [user[c] EXCEPT !.isVerified = TRUE, !.verificationToken = NoCode,
                                !.verificationTokenExpires = NoDate]
       IN /\ users' = SaveModified(users, u, DOMAIN u)
          /\ Await(c, "verify_mail", u)
    /\ UNCHANGED <<req, cookie, now, ticks, nreq, last, verifyLog, passwordLog, resetLog, call, frontend>>

\* verifyEmail from `user.isVerified = true` to `await user.save()`
VerifySave(c) ==
    /\ pc[c] = "verify_save"
    /\ LET u == [user[c] EXCEPT !.isVerified = TRUE, !.verificationToken = NoCode,
                                !.verificationTokenExpires = NoDate]
       IN /\ users' = SaveModified(users, u,
                        {"isVerified", "verificationToken", "verificationTokenExpires"})
          /\ Await(c, "verify_mail", u)
    /\ UNCHANGED <<req, cookie, now, ticks, nreq, last, verifyLog, passwordLog, resetLog, call, frontend>>

\* the user object of the 200 response of emailVerification.controller.js
verifyEmailUser(doc) == [doc EXCEPT !.password = NoDigest]

\* the user object of the 200 response of auth.controller.js verifyEmail
authVerifyEmailUser(doc) ==
    [doc EXCEPT !.password = NoDigest, !.verificationToken = NoCode,
                !.verificationTokenExpires = NoDate]

\* verifyEmail from `await sendWelcomeEmail` to the response
VerifyMail(c, delivered) ==
    /\ pc[c] = "verify_mail"
    /\ IF delivered
       THEN Reply(c, Response(200, "Email verified successfully",
                     IF req[c].ctl = "auth" THEN authVerifyEmailUser(user[c])
                                            ELSE verifyEmailUser(user[c])))
       ELSE Reply(c, Response(500, "Internal server error", NoUser))
    /\ UNCHANGED <<users, req, cookie, now, ticks, nreq, last, verifyLog, passwordLog, resetLog, call, frontend>>

verifyEmail(c, ctls, codes) ==
    \/ \E k \in ctls, code \in codes : VerifyFind(c, k, code)
    \/ VerifySave(c)
    \/ \E ok \in BOOLEAN : VerifyMail(c, ok)

\* ------------------------------------------------------------------- login
\* the 401 message for a wrong password
loginMismatchMessage(ctl) ==
    IF ctl = "auth" THEN "Invalid username or password" ELSE "Invalid email or password"

\* the user object of login's 200 response
loginUser(doc) == [doc EXCEPT !.password = NoDigest]

\* mutant: an account that is not verified may not log in
LoginFindVerifiedOnly(c, ctl, email, password) ==
    /\ Begin(c, [op |-> "login", ctl |-> ctl, email |-> email, password |-> password])
    /\ LET u == FindByEmail(users, email)
           v == [u EXCEPT !.lastLogin = now]
       IN IF u.id = 0
          THEN /\ Reply(c, Response(401, "Invalid email or password", NoUser))
               /\ UNCHANGED cookie
          ELSE IF ~Compare(password, u.password)
          THEN /\ Reply(c, Response(401, loginMismatchMessage(ctl), NoUser))
               /\ UNCHANGED cookie
          ELSE IF ~u.isVerified
          THEN /\ Reply(c, Response(403, "Email not verified", NoUser))
               /\ UNCHANGED cookie
          ELSE /\ cookie' = [cookie EXCEPT ![c] = generateTokenAndSetCookie(u, now)]
               /\ IF ctl = "auth"
                  THEN Reply(c, Response(200, "Login successful", loginUser(v)))
                  ELSE Await(c, "login_save", v)
    /\ UNCHANGED <<users, now, ticks, verifyLog, passwordLog, resetLog, frontend>>

\* login up to `await User.findOne({ email })`, then bcrypt.compare;
\* auth.controller.js answers here, login.controller.js goes on to save()
LoginFind(c, ctl, email, password) ==
    /\ Begin(c, [op |-> "login", ctl |-> ctl, email |-> email, password |-> password])
    /\ LET u == FindByEmail(users, email)
           v == [u EXCEPT !.lastLogin = now]
       IN IF u.id = 0
          THEN /\ Reply(c, Response(401, "Invalid email or password", NoUser))
               /\ UNCHANGED cookie
          ELSE IF ~Compare(password, u.password)
          THEN /\ Reply(c, Response(401, loginMismatchMessage(ctl), NoUser))
               /\ UNCHANGED cookie
          ELSE /\ cookie' = [cookie EXCEPT ![c] = generateTokenAndSetCookie(u, now)]
               /\ IF ctl = "auth"
                  THEN Reply(c, Response(200, "Login successful", loginUser(v)))
                  ELSE Await(c, "login_save", v)
    /\ UNCHANGED <<users, now, ticks, verifyLog, passwordLog, resetLog, frontend>>

\* mutant: the save writes back every path of the document login loaded
LoginSaveWholeDocument(c) ==
    /\ pc[c] = "login_save"
    /\ users' = SaveModified(users, user[c], DOMAIN user[c])
    /\ Reply(c, Response(200, "Login successful", loginUser(user[c])))
    /\ UNCHANGED <<req, cookie, now, ticks, nreq, last, verifyLog, passwordLog, resetLog, call, frontend>>

\* login.controller.js: `await user.save()` and the response
LoginSave(c) ==
    /\ pc[c] = "login_save"
    /\ users' = SaveModified(users, user[c], {"lastLogin"})
    /\ Reply(c, Response(200, "Login successful", loginUser(user[c])))
    /\ UNCHANGED <<req, cookie, now, ticks, nreq, last, verifyLog, passwordLog, resetLog, call, frontend>>

login(c, ctls, emails, passwords) ==
    \/ \E k \in ctls, e \in emails, p \in passwords : LoginFind(c, k, e, p)
    \/ LoginSave(c)

\* ------------------------------------------------------------------ logout
\* mutant: logout records the end of the session on the account
logoutStampsAccount(c) ==
    /\ Begin(c, [op |-> "logout"])
    /\ cookie' = [cookie EXCEPT ![c] = NoCookie]
    /\ users' = [i \in 1..Len(users) |->
                    IF users[i].id = cookie[c].id
                    THEN [users[i] EXCEPT !.lastLogin = NoDate] ELSE users[i]]
    /\ Reply(c, Response(200, "Logout successful", NoUser))
    /\ UNCHANGED <<now, ticks, verifyLog, passwordLog, resetLog, frontend>>

\* logout: res.clearCookie("jwt") and the response
logout(c) ==
    /\ Begin(c, [op |-> "logout"])
    /\ cookie' = [cookie EXCEPT ![c] = NoCookie]
    /\ Reply(c, Response(200, "Logout successful", NoUser))
    /\ UNCHANGED <<users, now, ticks, verifyLog, passwordLog, resetLog, frontend>>

\* ---------------------------------------------------------- forgotPassword
\* forgotPassword up to `await User.findOne({ email })`
ForgotFind(c, email) ==
    /\ Begin(c, [op |-> "forgotPassword", email |-> email])
    /\ LET u == FindByEmail(users, email)
       IN IF u.id = 0
          THEN Reply(c, Response(404, "User not found", NoUser))
          ELSE Await(c, "forgot_save", u)
    /\ UNCHANGED <<users, cookie, now, ticks, verifyLog, passwordLog, resetLog, frontend>>

\* generatePasswordResetToken: 32 random bytes in hex, taken to be fresh
generatePasswordResetToken == Len(resetLog) + 1

\* mutant: a pending reset pair is kept, the new token is only mailed
ForgotSaveKeepsPending(c) ==
    /\ pc[c] = "forgot_save"
    /\ Len(resetLog) < MaxResetTokens
    /\ LET u == [user[c] EXCEPT !.resetPasswordToken = generatePasswordResetToken,
                                !.resetPasswordExpires = now + ResetTTL]
       IN /\ users' = IF FindById(users, u.id).resetPasswordToken # NoToken THEN users
                      ELSE SaveModified(users, u, {"resetPasswordToken", "resetPasswordExpires"})
          /\ Await(c, "forgot_mail", u)
    /\ resetLog' = Append(resetLog, [account |-> user[c].id, at |-> now, used |-> FALSE])
    /\ UNCHANGED <<req, cookie, now, ticks, nreq, last, verifyLog, passwordLog, call, frontend>>

\* mutant: the save writes the token but not its expiry
ForgotSaveTokenOnly(c) ==
    /\ pc[c] = "forgot_save"
    /\ Len(resetLog) < MaxResetTokens
    /\ LET u == [user[c] EXCEPT !.resetPasswordToken = generatePasswordResetToken,
                                !.resetPasswordExpires = now + ResetTTL]
       IN /\ users' = SaveModified(users, u, {"resetPasswordToken"})
          /\ Await(c, "forgot_mail", u)
    /\ resetLog' = Append(resetLog, [account |-> user[c].id, at |-> now, used |-> FALSE])
    /\ UNCHANGED <<req, cookie, now, ticks, nreq, last, verifyLog, passwordLog, call, frontend>>

\* mutant: the save writes back every path of the document the handler loaded
ForgotSaveWholeDocument(c) ==
    /\ pc[c] = "forgot_save"
    /\ Len(resetLog) < MaxResetTokens
    /\ LET u == [user[c] EXCEPT !.resetPasswordToken = generatePasswordResetToken,
                                !.resetPasswordExpires = now + ResetTTL]
       IN /\ users' = SaveModified(users, u, DOMAIN u)
          /\ Await(c, "forgot_mail", u)
    /\ resetLog' = Append(resetLog, [account |-> user[c].id, at |-> now, used |-> FALSE])
    /\ UNCHANGED <<req, cookie, now, ticks, nreq, last, verifyLog, passwordLog, call, frontend>>

\* mutant: the new pair is mailed but not saved
ForgotSaveMailOnly(c) ==
    /\ pc[c] = "forgot_save"
    /\ Len(resetLog) < MaxResetTokens
    /\ LET u == [user[c] EXCEPT !.resetPasswordToken = generatePasswordResetToken,
                                !.resetPasswordExpires = now + ResetTTL]
       IN /\ users' = users
          /\ Await(c, "forgot_mail", u)
    /\ resetLog' = Append(resetLog, [account |-> user[c].id, at |-> now, used |-> FALSE])
    /\ UNCHANGED <<req, cookie, now, ticks, nreq, last, verifyLog, passwordLog, call, frontend>>

\* forgotPassword from generatePasswordResetToken() to `await user.save()`
ForgotSave(c) ==
    /\ pc[c] = "forgot_save"
    /\ Len(resetLog) < MaxResetTokens
    /\ LET u == [user[c] EXCEPT !.resetPasswordToken = generatePasswordResetToken,
                                !.resetPasswordExpires = now + ResetTTL]
       IN /\ users' = SaveModified(users, u, {"resetPasswordToken", "resetPasswordExpires"})
          /\ Await(c, "forgot_mail", u)
    /\ resetLog' = Append(resetLog, [account |-> user[c].id, at |-> now, used |-> FALSE])
    /\ UNCHANGED <<req, cookie, now, ticks, nreq, last, verifyLog, passwordLog, call, frontend>>

\* forgotPassword from `await sendPasswordResetEmail` to the response
ForgotMail(c, delivered) ==
    /\ pc[c] = "forgot_mail"
    /\ IF delivered
       THEN Reply(c, Response(200, "Password reset link sent to your email address", NoUser))
       ELSE Reply(c, Response(500, "Internal server error", NoUser))
    /\ UNCHANGED <<users, req, cookie, now, ticks, nreq, last, verifyLog, passwordLog, resetLog, call, frontend>>

forgotPassword(c, emails) ==
    \/ \E e \in emails : ForgotFind(c, e)
    \/ ForgotSave(c)
    \/ \E ok \in BOOLEAN : ForgotMail(c, ok)

\* ----------------------------------------------------------- resetPassword
\* mutant: the password is validated after the lookup, and a token presented
\* with a password that is too short is cleared
ResetFindClearsOnShort(c, token, password) ==
    /\ Begin(c, [op |-> "resetPassword", token |-> token, password |-> password])
    /\ LET u == FindByResetToken(users, token, now)
           v == [u EXCEPT !.resetPasswordToken = NoToken, !.resetPasswordExpires = NoDate]
       IN IF u.id = 0
          THEN /\ Reply(c, Response(404, "Invalid or expired token", NoUser))
               /\ UNCHANGED users
          ELSE IF password = "" \/ Len(password) < MinPasswordLength
          THEN /\ Reply(c, Response(400, "Password must be at least 6 characters", NoUser))
               /\ users' = SaveModified(users, v, {"resetPasswordToken", "resetPasswordExpires"})
          ELSE /\ Await(c, "reset_save", u)
               /\ UNCHANGED users
    /\ UNCHANGED <<cookie, now, ticks, verifyLog, passwordLog, resetLog, frontend>>

\* resetPassword up to `await User.findOne({resetPasswordToken, ...$gt: Date.now()})`
ResetFind(c, token, password) ==
    /\ Begin(c, [op |-> "resetPassword", token |-> token, password |-> password])
    /\ IF password = "" \/ Len(password) < MinPasswordLength
       THEN Reply(c, Response(400, "Password must be at least 6 characters", NoUser))
       ELSE LET u == FindByResetToken(users, token, now)
            IN IF u.id = 0
               THEN Reply(c, Response(404, "Invalid or expired token", NoUser))
               ELSE Await(c, "reset_save", u)
    /\ UNCHANGED <<users, cookie, now, ticks, verifyLog, passwordLog, resetLog, frontend>>

\* mutant: the save replaces the password but leaves the reset pair in place
ResetSaveKeepsToken(c, salt) ==
    /\ pc[c] = "reset_save"
    /\ LET u == [user[c] EXCEPT !.password = Hash(req[c].password, salt)]
       IN /\ users' = SaveModified(users, u, {"password"})
          /\ Await(c, "reset_mail", u)
    /\ passwordLog' = [passwordLog EXCEPT ![user[c].id] = req[c].password]
    /\ resetLog' = [resetLog EXCEPT ![req[c].token].used = TRUE]
    /\ UNCHANGED <<req, cookie, now, ticks, nreq, last, verifyLog, call, frontend>>

\* resetPassword from bcrypt.genSalt to `await user.save()`
ResetSave(c, salt) ==
    /\ pc[c] = "reset_save"
    /\ LET u == [user[c] EXCEPT !.password = Hash(req[c].password, salt),
                                !.resetPasswordToken = NoToken,
                                !.resetPasswordExpires = NoDate]
       IN /\ users' = SaveModified(users, u,
                        {"password", "resetPasswordToken", "resetPasswordExpires"})
          /\ Await(c, "reset_mail", u)
    /\ passwordLog' = [passwordLog EXCEPT ![user[c].id] = req[c].password]
    /\ resetLog' = [resetLog EXCEPT ![req[c].token].used = TRUE]
    /\ UNCHANGED <<req, cookie, now, ticks, nreq, last, verifyLog, call, frontend>>

\* resetPassword from `await sendResetSuccessEmail` to the response
ResetMail(c, delivered) ==
    /\ pc[c] = "reset_mail"
    /\ IF delivered
       THEN Reply(c, Response(200, "Password reset successfully", NoUser))
       ELSE Reply(c, Response(500, "Internal server error", NoUser))
    /\ UNCHANGED <<users, req, cookie, now, ticks, nreq, last, verifyLog, passwordLog, resetLog, call, frontend>>

resetPassword(c, tokens, passwords, salts) ==
    \/ \E t \in tokens, p \in passwords : ResetFind(c, t, p)
    \/ \E s \in salts : ResetSave(c, s)
    \/ \E ok \in BOOLEAN : ResetMail(c, ok)

\* --------------------------------------------------- protectRoute, checkAuth
\* mutant: the signature is verified, the expiry claim is not
JwtVerifySignatureOnly(token, t) == token.key = JWT_SECRET

\* jwt.verify(token, JWT_SECRET): signature and expiry
JwtVerify(token, t) == token.key = JWT_SECRET /\ t < token.exp

\* mutant: the middleware also looks the account up and refuses a token
\* whose account is not in the store
protectRouteChecksStore(token, t) ==
    IF token = NoCookie
    THEN Response(401, "Unauthorized - No token provided", NoUser)
    ELSE IF ~(token.key = JWT_SECRET /\ t < token.exp)
    THEN Response(403, "Forbidden access", NoUser)
    ELSE IF token.id = 0 \/ FindById(users, token.id).id = 0
    THEN Response(403, "Unauthorized - Invalid token", NoUser)
    ELSE NoResponse

\* mutant: the middleware refuses a token of an account whose password was
\* reset
protectRouteRevokedByReset(token, t) ==
    IF token = NoCookie
    THEN Response(401, "Unauthorized - No token provided", NoUser)
    ELSE IF ~(token.key = JWT_SECRET /\ t < token.exp)
    THEN Response(403, "Forbidden access", NoUser)
    ELSE IF token.id = 0
    THEN Response(403, "Unauthorized - Invalid token", NoUser)
    ELSE IF \E r \in 1..Len(resetLog) : resetLog[r].account = token.id /\ resetLog[r].used
    THEN Response(403, "Forbidden access", NoUser)
    ELSE NoResponse

\* protectRoute: NoResponse when next() is called, else the response it sends
protectRoute(token, t) ==
    IF token = NoCookie
    THEN Response(401, "Unauthorized - No token provided", NoUser)
    ELSE IF ~JwtVerify(token, t)
    THEN Response(403, "Forbidden access", NoUser)
    ELSE IF token.id = 0
    THEN Response(403, "Unauthorized - Invalid token", NoUser)
    ELSE NoResponse

\* the user object of checkAuth's 200 response: select("-password")
checkAuthUser(doc) == [doc EXCEPT !.password = NoDigest]

\* tokens a client may present besides the cookie the server gave it
ForgedToken == [id |-> 1, name |-> "Ann", exp |-> SessionTTL, key |-> "forged"]
                                   \* malformed, or signed with another secret
ExpiredToken == [id |-> 1, name |-> "Ann", exp |-> 1, key |-> JWT_SECRET]
                                   \* a session issued 14 days before hour 1
AnonymousToken == [id |-> 0, name |-> "Ann", exp |-> SessionTTL, key |-> JWT_SECRET]
                                   \* signed with the secret, payload without id
GhostToken == [id |-> 99, name |-> "Ann", exp |-> SessionTTL, key |-> JWT_SECRET]
                                   \* signup sets the cookie before save(), and
                                   \* the save of this account was refused
PresentedTokens == {ForgedToken, ExpiredToken, AnonymousToken, GhostToken}

\* sessions a client may have kept a copy of: for each account in the store
\* the token issued at the time in its lastLogin, which is the time of its
\* signup until a login is saved
KeptTokens == {generateTokenAndSetCookie(users[i], users[i].lastLogin) : i \in 1..Len(users)}

\* GET /check-auth: protectRoute on req.cookies.jwt, then
\* `await User.findById(req.userId)`
checkAuth(c, tokens) ==
    \E t \in {cookie[c]} \cup tokens :
        /\ Begin(c, [op |-> "checkAuth", token |-> t])
        /\ LET guard == protectRoute(t, now)
               u == FindById(users, t.id)
           IN IF guard # NoResponse
              THEN Reply(c, guard)
              ELSE IF u.id = 0
              THEN Reply(c, Response(404, "User not found", NoUser))
              ELSE Reply(c, Response(200, "", checkAuthUser(u)))
        /\ UNCHANGED <<users, cookie, now, ticks, verifyLog, passwordLog, resetLog, frontend>>

\* ------------------------------------------------------------------- specs
Next ==
    \/ Tick
    \/ \E c \in Clients : signup(c, {"auth"}, {"a@x.com"}, {"secret1"}, Names, {"saltA"}, RandomInts)
    \/ \E c \in Clients : verifyEmail(c, {"split", "auth"}, VerificationCodes)
    \/ \E c \in Clients : login(c, {"split", "auth"}, {"a@x.com"}, Passwords)
    \/ \E c \in Clients : logout(c)
    \/ \E c \in Clients : forgotPassword(c, {"a@x.com"})
    \/ \E c \in Clients : resetPassword(c, 1..MaxResetTokens, {"longenough1", ShortPassword}, {"saltA"})
    \/ \E c \in Clients : checkAuth(c, {})

Spec == Init /\ [][Next]_vars

\* signup and verifyEmail with two addresses
NextVerify ==
    \/ Tick
    \/ \E c \in Clients : signup(c, {"auth"}, Emails, {"secret1"}, Names, {"saltA"}, RandomInts)
    \/ \E c \in Clients : verifyEmail(c, {"split", "auth"}, VerificationCodes)

SpecVerify == Init /\ [][NextVerify]_vars

\* one address, two passwords: signup, login and the password reset
NextLogin ==
    \/ \E c \in Clients : signup(c, {"auth"}, {"a@x.com"}, Passwords, Names, {"saltA"}, {7})
    \/ \E c \in Clients : login(c, {"split", "auth"}, {"a@x.com"}, Passwords)
    \/ \E c \in Clients : forgotPassword(c, {"a@x.com"})
    \/ \E c \in Clients : resetPassword(c, 1..MaxResetTokens, {"longenough1"}, {"saltA", "saltB"})

SpecLogin == Init /\ [][NextLogin]_vars

\* one account and its password reset
NextReset ==
    \/ Tick
    \/ \E c \in Clients : signup(c, {"auth"}, {"a@x.com"}, {"secret1"}, Names, {"saltA"}, {7})
    \/ \E c \in Clients : forgotPassword(c, {"a@x.com"})
    \/ \E c \in Clients : resetPassword(c, 1..MaxResetTokens, {"longenough1", ShortPassword}, {"saltA"})

SpecReset == Init /\ [][NextReset]_vars

\* one account and every handler that saves it
NextTokens ==
    \/ Tick
    \/ \E c \in Clients : signup(c, {"auth"}, {"a@x.com"}, {"secret1"}, Names, {"saltA"}, {7})
    \/ \E c \in Clients : verifyEmail(c, {"split"}, {generateVerificationToken(7)})
    \/ \E c \in Clients : login(c, {"split"}, {"a@x.com"}, {"secret1"})
    \/ \E c \in Clients : forgotPassword(c, {"a@x.com"})
    \/ \E c \in Clients : resetPassword(c, 1..MaxResetTokens, {"longenough1", ShortPassword}, {"saltA"})

SpecTokens == Init /\ [][NextTokens]_vars

\* one account and its verification, with right and wrong codes
NextExpiry ==
    \/ Tick
    \/ \E c \in Clients : signup(c, {"auth"}, {"a@x.com"}, {"secret1"}, Names, {"saltA"}, {7})
    \/ \E c \in Clients : verifyEmail(c, {"split", "auth"}, VerificationCodes)

SpecExpiry == Init /\ [][NextExpiry]_vars

\* one account and its sessions: login by both handlers, logout, check-auth
NextSession ==
    \/ Tick
    \/ \E c \in Clients : signup(c, {"auth"}, {"a@x.com"}, {"secret1"}, Names, {"saltA"}, {7})
    \/ \E c \in Clients : verifyEmail(c, {"auth"}, {generateVerificationToken(7)})
    \/ \E c \in Clients : login(c, {"split", "auth"}, {"a@x.com"}, Passwords)
    \/ \E c \in Clients : logout(c)
    \/ \E c \in Clients : checkAuth(c, PresentedTokens)

SpecSession == Init /\ [][NextSession]_vars

\* Register alone, by both handlers, with missing and out-of-bounds fields
NextSignup ==
    \E c \in Clients :
        signup(c, {"split", "auth"}, {"a@x.com", LongEmail},
               {"secret1", ShortPassword}, {"Ann", "", ShortName, LongName},
               {"saltA"}, {7})

SpecSignup == Init /\ [][NextSignup]_vars

\* one account and its sessions over 14 days
NextLifetime ==
    \/ Elapse(LifetimeSteps)
    \/ \E c \in Clients : signup(c, {"auth"}, {"a@x.com"}, {"secret1"}, Names, {"saltA"}, {7})
    \/ \E c \in Clients : login(c, {"split", "auth"}, {"a@x.com"}, {"secret1"})
    \/ \E c \in Clients : checkAuth(c, {})

SpecLifetime == Init /\ [][NextLifetime]_vars

\* one account and every handler that saves it, the clock in steps of an hour
NextSaves ==
    \/ Elapse({1})
    \/ \E c \in Clients : signup(c, {"auth"}, {"a@x.com"}, {"secret1"}, Names, {"saltA"}, {7})
    \/ \E c \in Clients : verifyEmail(c, {"split"}, {generateVerificationToken(7)})
    \/ \E c \in Clients : login(c, {"split"}, {"a@x.com"}, {"secret1"})
    \/ \E c \in Clients : forgotPassword(c, {"a@x.com"})
    \/ \E c \in Clients : resetPassword(c, 1..MaxResetTokens, {"longenough1"}, {"saltA"})

SpecSaves == Init /\ [][NextSaves]_vars

\* one account and its password reset, every reset mail delivered
NextDelivered ==
    \/ Tick
    \/ \E c \in Clients : signup(c, {"auth"}, {"a@x.com"}, {"secret1"}, Names, {"saltA"}, {7})
    \/ \E c \in Clients : ForgotFind(c, "a@x.com")
    \/ \E c \in Clients : ForgotSave(c)
    \/ \E c \in Clients : ForgotMail(c, TRUE)
    \/ \E c \in Clients : resetPassword(c, 1..MaxResetTokens, {"longenough1"}, {"saltA"})

SpecDelivered == Init /\ [][NextDelivered]_vars

\* one account a day long: every handler that reads or saves it
NextReissue ==
    \/ Elapse({24})
    \/ \E c \in Clients : signup(c, {"auth"}, {"a@x.com"}, {"secret1"}, Names, {"saltA"}, {7})
    \/ \E c \in Clients : verifyEmail(c, {"split"}, {generateVerificationToken(7)})
    \/ \E c \in Clients : login(c, {"split"}, {"a@x.com"}, {"secret1"})
    \/ \E c \in Clients : forgotPassword(c, {"a@x.com"})
    \/ \E c \in Clients : resetPassword(c, 1..MaxResetTokens, {"longenough1"}, {"saltA"})

SpecReissue == Init /\ [][NextReissue]_vars

\* one account, its sessions, logout and the password reset, over 14 days
NextRevoke ==
    \/ Elapse({1, SessionTTL})
    \/ \E c \in Clients : signup(c, {"auth"}, {"a@x.com"}, {"secret1"}, Names, {"saltA"}, {7})
    \/ \E c \in Clients : logout(c)
    \/ \E c \in Clients : forgotPassword(c, {"a@x.com"})
    \/ \E c \in Clients : resetPassword(c, 1..MaxResetTokens, {"longenough1"}, {"saltA"})
    \/ \E c \in Clients : checkAuth(c, KeptTokens)

SpecRevoke == Init /\ [][NextRevoke]_vars

\* one page of the frontend and the handlers its store calls
FrontendOps == {"checkAuth", "signup", "login", "logout", "verifyEmail"}

NextFrontend ==
    \/ StoreCall("c1", FrontendOps)
    \/ StoreSettle("c1")
    \/ Visit("c1", Paths)
    \/ NavigateEffect("c1")
    \/ \E c \in Clients : signup(c, {"auth"}, {"a@x.com"}, {"secret1"}, Names, {"saltA"}, {7})
    \/ \E c \in Clients : verifyEmail(c, {"auth"}, {generateVerificationToken(7)})
    \/ \E c \in Clients : login(c, {"split", "auth"}, {"a@x.com"}, {"secret1"})
    \/ \E c \in Clients : logout(c)
    \/ \E c \in Clients : checkAuth(c, {})

SpecFrontend == Init /\ [][NextFrontend]_vars

\* the store alone: its actions called in any order, and the handlers
StoreOps == {"checkAuth", "signup", "login", "logout", "verifyEmail",
             "forgotPassword", "resetPassword"}

NextStore ==
    \/ StoreCallDirect("c1", StoreOps)
    \/ StoreSettle("c1")
    \/ \E c \in Clients : signup(c, {"auth"}, {"a@x.com"}, {"secret1"}, Names, {"saltA"}, {7})
    \/ \E c \in Clients : verifyEmail(c, {"auth"}, {generateVerificationToken(7)})
    \/ \E c \in Clients : login(c, {"split", "auth"}, {"a@x.com"}, {"secret1"})
    \/ \E c \in Clients : logout(c)
    \/ \E c \in Clients : forgotPassword(c, {"a@x.com"})
    \/ \E c \in Clients : resetPassword(c, 1..MaxResetTokens, {"longenough1"}, {"saltA"})
    \/ \E c \in Clients : checkAuth(c, {})

SpecStore == Init /\ [][NextStore]_vars

\* ------------------------------------------------------------- vocabulary
Accounts == {users[i] : i \in 1..Len(users)}

\* this step is the arrival of client c's request for operation op
Arrives(c, op) == nreq' = nreq + 1 /\ last' = c /\ req'[c].op = op

\* client c has the response to a request for operation op
Answered(c, op) == pc[c] = "idle" /\ req[c].op = op /\ resp[c] # NoResponse

\* some account was verified with this code
Consumed(code) == \E a \in Accounts : a.isVerified /\ verifyLog[a.id] = code

\* some account holds this code, pending and unexpired
Pending(code) ==
    \E a \in Accounts : /\ a.verificationToken = code
                        /\ a.verificationTokenExpires # NoDate
                        /\ now < a.verificationTokenExpires

ResetTokens == 1..Len(resetLog)

\* a reset token that was generated and with which a reset has been saved
Used(t) == t \in ResetTokens /\ resetLog[t].used

\* the reset tokens generated for the same account as t
Siblings(t) == {s \in ResetTokens : resetLog[s].account = resetLog[t].account}

\* the reset token generated last for an account
Newest(id) == CHOOSE t \in ResetTokens :
                 /\ resetLog[t].account = id
                 /\ \A s \in ResetTokens : resetLog[s].account = id => s <= t

Rejected(c) == pc'[c] = "idle" /\ resp'[c].status \in {400, 404} /\ users' = users

\* ------------------------------------------------------------------ claims
\* C1: VerifyEmail with the code Register issued succeeds exactly once: a
\* call presenting a pending, unexpired code is accepted, and once an
\* account has been verified with a code every later VerifyEmail call with
\* that same code is answered 400 (invalid or expired token).
C1_VerifyOnce ==
    [][\A c \in Clients :
        Arrives(c, "verifyEmail") =>
            /\ (Pending(req'[c].code) /\ ~Consumed(req'[c].code))
                   => pc'[c] = "verify_save"
            /\ Consumed(req'[c].code) => resp'[c].status = 400]_vars

\* C2: a reset token is single-use: once a reset has been saved with a
\* token, every ResetPassword call that arrives later with the same token
\* is rejected (404 invalid or expired token when the password is valid)
\* and leaves the store, so the account's password hash, unchanged.
C2_ResetTokenSingleUse ==
    [][\A c \in Clients :
        (Arrives(c, "resetPassword") /\ Used(req'[c].token)) =>
            /\ Rejected(c)
            /\ Len(req'[c].password) >= MinPasswordLength => resp'[c].status = 404]_vars

\* C2 witness: the only token generated was used by one client, and the
\* other client, arriving later with it and a valid password, got 404.
C2_Witness ==
    \E c \in Clients, d \in Clients :
        /\ c # d /\ last = c /\ Len(resetLog) = 1 /\ ticks = 0
        /\ Answered(d, "resetPassword") /\ resp[d].status = 200 /\ req[d].token = 1
        /\ Answered(c, "resetPassword") /\ resp[c].status = 404 /\ req[c].token = 1
        /\ Len(req[c].password) >= MinPasswordLength

\* C3: when ForgotPassword has run twice for an account, ResetPassword with
\* the first token is rejected, and as long as no token of the account was
\* used, ResetPassword with the newest token and a valid password is
\* accepted until that token's hour is over.
C3_OnlyNewestResetToken ==
    [][\A c \in Clients :
        (Arrives(c, "resetPassword") /\ req'[c].token \in ResetTokens) =>
            LET t == req'[c].token IN
            /\ (\E s \in Siblings(t) : s > t) => Rejected(c)
            /\ ( /\ \A s \in Siblings(t) : s <= t /\ ~resetLog[s].used
                 /\ now < resetLog[t].at + ResetTTL
                 /\ Len(req'[c].password) >= MinPasswordLength )
                   => pc'[c] = "reset_save"]_vars

\* C3 witness: two tokens were generated for one account, none was used, and
\* the client that arrived last presented the first one and got 404.
C3_Witness ==
    \E c \in Clients :
        /\ last = c /\ Answered(c, "resetPassword") /\ resp[c].status = 404
        /\ req[c].token = 1 /\ Len(resetLog) = 2 /\ Siblings(1) = {1, 2}
        /\ \A s \in ResetTokens : ~resetLog[s].used

\* C4: Login(email, p) succeeds if and only if an account with that email
\* exists and p is the password most recently saved for it by Register or
\* by ResetPassword.
C4_LoginIffCurrentPassword ==
    [][\A c \in Clients :
        Arrives(c, "login") =>
            ( (pc'[c] = "login_save" \/ resp'[c].status = 200)
              <=> \E a \in Accounts : /\ a.email = req'[c].email
                                      /\ passwordLog[a.id] = req'[c].password )]_vars

\* C5: Login has one uniform failure: any two 401 responses of the same
\* login handler (unknown email, wrong password) are identical.
C5_UniformLoginFailure ==
    \A c \in Clients, d \in Clients :
        ( /\ Answered(c, "login") /\ resp[c].status = 401
          /\ Answered(d, "login") /\ resp[d].status = 401
          /\ req[c].ctl = req[d].ctl )
            => resp[c] = resp[d]

\* C6: the account object in a response never carries the password hash,
\* the verification code, the reset token or either expiry.
C6_NoSecretsInResponse ==
    \A c \in Clients :
        (resp[c].status \in {200, 201} /\ resp[c].user.id # 0) =>
            /\ resp[c].user.password = NoDigest
            /\ resp[c].user.verificationToken = NoCode
            /\ resp[c].user.verificationTokenExpires = NoDate
            /\ resp[c].user.resetPasswordToken = NoToken
            /\ resp[c].user.resetPasswordExpires = NoDate

\* C7: of two concurrent Register calls with the same email at most one is
\* answered 201, and the store never holds two accounts with one email.
C7_OneAccountPerEmail ==
    /\ \A i \in 1..Len(users), j \in 1..Len(users) :
          users[i].email = users[j].email => i = j
    /\ \A c \in Clients, d \in Clients :
          ( /\ Answered(c, "signup") /\ resp[c].status = 201
            /\ Answered(d, "signup") /\ resp[d].status = 201
            /\ req[c].email = req[d].email ) => c = d

\* C8: of two ResetPassword calls presenting the same token at most one is
\* answered 200.
C8_OneResetPerToken ==
    \A c \in Clients, d \in Clients :
        ( /\ Answered(c, "resetPassword") /\ resp[c].status = 200
          /\ Answered(d, "resetPassword") /\ resp[d].status = 200
          /\ req[c].token = req[d].token ) => c = d

\* client c's forgotPassword request has written its reset pair
PastForgotSave(c) ==
    /\ req[c].op = "forgotPassword"
    /\ pc[c] = "forgot_mail" \/ (pc[c] = "idle" /\ resp[c].status \in {200, 500})

\* C9: the reset pair an account holds is the token and the expiry written
\* by the last ForgotPassword save for it, no token but that one is accepted
\* by ResetPassword's lookup, and once two ForgotPassword calls for one
\* account have both saved, that pair is in the store and its token is
\* accepted until it expires.
C9_LastForgotWins ==
    /\ \A a \in Accounts :
          a.resetPasswordToken # NoToken =>
              /\ a.resetPasswordToken \in ResetTokens
              /\ resetLog[a.resetPasswordToken].account = a.id
              /\ a.resetPasswordToken = Newest(a.id)
              /\ a.resetPasswordExpires = resetLog[a.resetPasswordToken].at + ResetTTL
    /\ \A t \in ResetTokens :
          t # Newest(resetLog[t].account) => FindByResetToken(users, t, now).id = 0
    /\ \A c \in Clients, d \in Clients :
          (c # d /\ PastForgotSave(c) /\ PastForgotSave(d) /\ req[c].email = req[d].email) =>
              LET a == FindByEmail(users, req[c].email)
                  t == Newest(a.id)
              IN /\ a.resetPasswordToken = t
                 /\ a.resetPasswordExpires = resetLog[t].at + ResetTTL
                 /\ now < resetLog[t].at + ResetTTL
                       => FindByResetToken(users, t, now).id = a.id

\* C9 witness: two ForgotPassword calls for one account are in flight after
\* their saves, made at different times; the store holds the later pair.
C9_Witness ==
    \E c \in Clients, d \in Clients :
        /\ pc[c] = "forgot_mail" /\ pc[d] = "forgot_mail" /\ user[c].id = user[d].id
        /\ user[c].resetPasswordToken < user[d].resetPasswordToken
        /\ user[c].resetPasswordExpires < user[d].resetPasswordExpires
        /\ FindById(users, user[d].id).resetPasswordToken = user[d].resetPasswordToken
        /\ FindById(users, user[d].id).resetPasswordExpires = user[d].resetPasswordExpires

\* C10: every account has a verification token exactly when it has a
\* verification expiry, and a reset token exactly when it has a reset expiry.
C10_TokenPairsTogether ==
    \A a \in Accounts :
        /\ (a.verificationToken = NoCode) <=> (a.verificationTokenExpires = NoDate)
        /\ (a.resetPasswordToken = NoToken) <=> (a.resetPasswordExpires = NoDate)

\* C10 witness: verifyEmail and forgotPassword wrote to the same account
\* while both were in flight; it has no verification pair and a reset pair.
C10_Witness ==
    \E c \in Clients, d \in Clients :
        /\ pc[c] = "verify_mail" /\ pc[d] = "forgot_mail" /\ user[c].id = user[d].id
        /\ ~user[d].isVerified
        /\ FindById(users, user[c].id).verificationToken = NoCode
        /\ FindById(users, user[c].id).resetPasswordToken # NoToken

\* C11: isVerified is monotonic: an account whose isVerified is true keeps
\* its place in the store and stays verified through every step of every
\* operation.
C11_VerifiedForever ==
    [][\A i \in 1..Len(users) :
        users[i].isVerified =>
            /\ i <= Len(users')
            /\ users'[i].id = users[i].id
            /\ users'[i].isVerified]_vars

\* C11 witness: resetPassword loaded an account that was already verified
\* and has saved it; the account in the store is still verified.
C11_Witness ==
    \E c \in Clients :
        /\ pc[c] = "reset_mail" /\ user[c].isVerified
        /\ passwordLog[user[c].id] = req[c].password
        /\ FindById(users, user[c].id).isVerified

\* the step on which client c's signup saves its new document
SavesSignup(c) == pc[c] = "signup_save" /\ pc'[c] = "signup_mail"

\* C12: a Register that gets as far as its save appends one account with
\* the request's email and name, isVerified false, a six-digit pending code
\* expiring 24 hours later, and as password a bcrypt digest of the request's
\* password (prefix, salt, digest), not the plaintext; a 201 answer is given
\* only for an account that is in the store, and shows it unverified.
C12_RegisterStoresPendingAccount ==
    [][\A c \in Clients :
        /\ SavesSignup(c) =>
              LET a == users'[Len(users')] IN
              /\ Len(users') = Len(users) + 1
              /\ \A i \in 1..Len(users) : users'[i] = users[i]
              /\ a.email = req[c].email /\ a.name = req[c].name
              /\ ~a.isVerified
              /\ a.verificationToken # NoCode
              /\ Len(a.verificationToken) = CodeDigits
              /\ a.verificationTokenExpires = now + VerificationTTL
              /\ a.password # NoDigest
              /\ a.password[1] = "$2b$10$" /\ a.password[2] \in Salts
              /\ Compare(req[c].password, a.password)
        /\ (pc[c] = "signup_mail" /\ resp'[c].status = 201) =>
              /\ FindById(users', resp'[c].user.id).email = req[c].email
              /\ ~resp'[c].user.isVerified]_vars

\* C12 witness: Register of the second password was answered 201 and the
\* account it created is in the store, unverified, with its pending code.
C12_Witness ==
    \E c \in Clients :
        /\ Answered(c, "signup") /\ resp[c].status = 201
        /\ req[c].password = "longenough1"
        /\ LET a == FindById(users, resp[c].user.id)
           IN /\ a.id # 0 /\ ~a.isVerified
              /\ a.verificationToken = verifyLog[a.id]
              /\ Compare("longenough1", a.password)

\* C13: a Register that arrives with the email of a stored account is
\* answered 409 at once: the store is unchanged (no account overwritten,
\* none added), and the handler returns before its save and before the
\* verification mail.
C13_DuplicateEmailConflict ==
    [][\A c \in Clients :
        ( /\ Arrives(c, "signup")
          /\ \E a \in Accounts : a.email = req'[c].email ) =>
            /\ resp'[c] = Response(409, "Email already exists", NoUser)
            /\ pc'[c] = "idle"
            /\ users' = users
            /\ cookie' = cookie]_vars

\* C13 witness: the client that arrived last asked to register the email of
\* the one stored account and was answered 409; the account is as the first
\* Register saved it.
C13_Witness ==
    \E c \in Clients :
        /\ last = c /\ Answered(c, "signup") /\ resp[c].status = 409
        /\ Len(users) = 1 /\ users[1].email = req[c].email
        /\ passwordLog[1] # req[c].password
        /\ Compare(passwordLog[1], users[1].password)
        /\ users[1].verificationToken = verifyLog[1]

\* the accounts that hold this verification code
Holders(code) == {a \in Accounts : a.verificationToken = code}

\* C14: a VerifyEmail call whose code is held only by accounts whose expiry
\* is in the past gets the very response of a call whose code no account
\* holds, 400 "Invalid or expired verification token", and in both cases
\* the handler returns without writing to the store.
C14_ExpiredLikeUnknown ==
    [][\A c \in Clients :
        ( /\ Arrives(c, "verifyEmail")
          /\ \A a \in Holders(req'[c].code) : a.verificationTokenExpires < now ) =>
            /\ resp'[c] = Response(400, "Invalid or expired verification token", NoUser)
            /\ pc'[c] = "idle"
            /\ users' = users]_vars

\* C14 witness: one client presented a code no account holds, the other,
\* arriving last, the code of an account after its expiry; both have the
\* same response and the account is still unverified with its code.
C14_Witness ==
    \E c \in Clients, d \in Clients :
        /\ last = c /\ Answered(c, "verifyEmail") /\ Answered(d, "verifyEmail")
        /\ Holders(req[d].code) = {}
        /\ \E a \in Holders(req[c].code) :
              a.verificationTokenExpires < now /\ ~a.isVerified
        /\ resp[c].status = 400 /\ resp[c] = resp[d]

\* C15: a ResetPassword call with a token the lookup would accept and a
\* password shorter than 6 characters is answered 400 without a lookup or
\* a write: the store is unchanged, so the token is still accepted, and a
\* call with an accepted token and a valid password goes on to its save.
C15_ShortPasswordKeepsToken ==
    [][\A c \in Clients :
        ( /\ Arrives(c, "resetPassword")
          /\ FindByResetToken(users, req'[c].token, now).id # 0 ) =>
            IF Len(req'[c].password) < MinPasswordLength
            THEN /\ resp'[c].status = 400
                 /\ pc'[c] = "idle"
                 /\ users' = users
                 /\ FindByResetToken(users', req'[c].token, now)
                        = FindByResetToken(users, req'[c].token, now)
            ELSE /\ pc'[c] = "reset_save"
                 /\ user'[c] = FindByResetToken(users, req'[c].token, now)]_vars

\* C15 witness: one client presented the token with a 5-character password
\* and got 400; the other, arriving later with the same token and a valid
\* password, was answered 200 and the account has the new password.
C15_Witness ==
    \E c \in Clients, d \in Clients :
        /\ last = c /\ c # d
        /\ Answered(d, "resetPassword") /\ resp[d].status = 400
        /\ req[d].password = ShortPassword
        /\ Answered(c, "resetPassword") /\ resp[c].status = 200
        /\ req[c].token = req[d].token
        /\ Compare(req[c].password, FindById(users, resetLog[req[c].token].account).password)

\* this step answers client c's login with 200
LoginSucceeds(c) ==
    /\ Arrives(c, "login") \/ pc[c] = "login_save"
    /\ pc'[c] = "idle" /\ resp'[c].status = 200

\* C16: when a Login is answered 200, the account in the store has as
\* lastLogin the time of that login, the one the response shows.
C16_LoginPersistsLastLogin ==
    [][\A c \in Clients :
        LoginSucceeds(c) =>
            FindById(users', resp'[c].user.id).lastLogin = resp'[c].user.lastLogin]_vars

\* C17: the outcome of Login is decided by the account the email resolves
\* to and the password alone, whatever isVerified is: with the right
\* password the call succeeds and sets a session cookie for the account,
\* otherwise it is answered 401 and sets none.
C17_LoginIgnoresVerification ==
    [][\A c \in Clients :
        Arrives(c, "login") =>
            LET u == FindByEmail(users, req'[c].email) IN
            IF u.id # 0 /\ Compare(req'[c].password, u.password)
            THEN /\ pc'[c] = "login_save" \/ resp'[c].status = 200
                 /\ cookie'[c] = [id |-> u.id, name |-> u.name,
                                   exp |-> now + SessionTTL, key |-> JWT_SECRET]
            ELSE /\ resp'[c].status = 401
                 /\ cookie'[c] = cookie[c]]_vars

\* C17 witness: Login was answered 200 for an account that is not verified,
\* and the client holds a session cookie for it.
C17_Witness ==
    \E c \in Clients :
        /\ Answered(c, "login") /\ resp[c].status = 200
        /\ ~resp[c].user.isVerified
        /\ ~FindById(users, resp[c].user.id).isVerified
        /\ cookie[c].id = resp[c].user.id /\ cookie[c].key = JWT_SECRET

\* C18: Logout leaves every account as it was; it clears the caller's jwt
\* cookie, no other client's, and answers 200.
C18_LogoutLeavesStore ==
    [][\A c \in Clients :
        Arrives(c, "logout") =>
            /\ users' = users
            /\ cookie' = [cookie EXCEPT ![c] = NoCookie]
            /\ resp'[c].status = 200]_vars

\* C18 witness: a client that was logged in to the stored account called
\* Logout last; the account still has the lastLogin of that login, and the
\* other client still holds its session for the account.
C18_Witness ==
    \E c \in Clients, d \in Clients :
        /\ last = c /\ Answered(c, "logout") /\ cookie[c] = NoCookie
        /\ Len(users) = 1 /\ users[1].lastLogin > 0
        /\ c # d /\ cookie[d].id = users[1].id /\ cookie[d].key = JWT_SECRET

\* C19: check-auth reaches its handler (answers 200 or 404) only when the
\* token presented is signed with the secret, unexpired and carries an
\* account id; without a token the answer is 401, with a token of another
\* signature or an expired one it is 403, and nothing is written.
C19_GuardedHandler ==
    [][\A c \in Clients :
        Arrives(c, "checkAuth") =>
            LET t == req'[c].token IN
            /\ t = NoCookie => resp'[c].status = 401
            /\ (t # NoCookie /\ (t.key # JWT_SECRET \/ t.exp <= now))
                  => resp'[c].status = 403
            /\ resp'[c].status \in {200, 404}
                  => (t # NoCookie /\ t.key = JWT_SECRET /\ now < t.exp /\ t.id # 0)
            /\ resp'[c].status \in {200, 401, 403, 404}
            /\ users' = users]_vars

\* C19 witness: the client that arrived last presented a token signed with
\* the secret for a stored account, after its expiry, and was answered 403.
C19_Witness ==
    \E c \in Clients :
        /\ last = c /\ Answered(c, "checkAuth") /\ resp[c].status = 403
        /\ req[c].token.key = JWT_SECRET /\ req[c].token.exp <= now
        /\ \E a \in Accounts : a.id = req[c].token.id

\* C20: whether check-auth gets past protectRoute is decided by the token,
\* the secret and the clock alone, whatever the store holds; past it, the
\* answer is 200 with the account of the token's id when the store has
\* one, and 404 "User not found" when it has none.
C20_StatelessValidation ==
    [][\A c \in Clients :
        Arrives(c, "checkAuth") =>
            LET t == req'[c].token
                valid == t # NoCookie /\ t.key = JWT_SECRET /\ now < t.exp /\ t.id # 0
            IN /\ resp'[c].status \in {401, 403} <=> ~valid
               /\ valid =>
                     IF \E a \in Accounts : a.id = t.id
                     THEN resp'[c].status = 200 /\ resp'[c].user.id = t.id
                     ELSE resp'[c] = Response(404, "User not found", NoUser)]_vars

\* C20 witness: with an account in the store, a client presented a valid
\* token whose id no account has, and was answered 404.
C20_Witness ==
    \E c \in Clients :
        /\ Answered(c, "checkAuth") /\ resp[c].status = 404
        /\ req[c].token.key = JWT_SECRET /\ now < req[c].token.exp
        /\ users # <<>> /\ \A a \in Accounts : a.id # req[c].token.id

\* client c's handler comes to the await on the mailer at this step
ComesToMail(c, label) == pc'[c] = label /\ pc[c] # label

\* C21: a handler comes to its mail dispatch only from its save, and with
\* the write of that save in the store: the new account for Register, the
\* verified account without its code for VerifyEmail, the new reset pair
\* for ForgotPassword, the new digest without the reset pair for
\* ResetPassword; the dispatch itself, delivered or not, writes nothing.
C21_PersistBeforeMail ==
    [][\A c \in Clients :
        LET a == FindById(users', user'[c].id) IN
        /\ ComesToMail(c, "signup_mail") =>
              /\ pc[c] = "signup_save"
              /\ FindById(users, user'[c].id).id = 0
              /\ a = user'[c]
        /\ ComesToMail(c, "verify_mail") =>
              /\ pc[c] = "verify_save"
              /\ a.isVerified /\ a.verificationToken = NoCode
              /\ a.verificationTokenExpires = NoDate
        /\ ComesToMail(c, "forgot_mail") =>
              /\ pc[c] = "forgot_save"
              /\ a.resetPasswordToken = Len(resetLog')
              /\ a.resetPasswordToken # FindById(users, user'[c].id).resetPasswordToken
              /\ a.resetPasswordExpires = now + ResetTTL
        /\ ComesToMail(c, "reset_mail") =>
              /\ pc[c] = "reset_save"
              /\ Compare(req[c].password, a.password)
              /\ a.resetPasswordToken = NoToken /\ a.resetPasswordExpires = NoDate
        /\ (pc[c] \in {"signup_mail", "verify_mail", "forgot_mail", "reset_mail"}
              /\ pc'[c] # pc[c]) =>
              /\ pc'[c] = "idle" /\ users' = users]_vars

\* C21 witness: one client's Register and the other's ResetPassword are
\* both at their mail dispatch, and the store holds the new account and
\* the new password.
C21_Witness ==
    \E c \in Clients, d \in Clients :
        /\ pc[c] = "signup_mail" /\ pc[d] = "reset_mail"
        /\ FindById(users, user[c].id) = user[c]
        /\ user[c].id # user[d].id
        /\ Compare(req[d].password, FindById(users, user[d].id).password)

\* C22: when Register's verification mail is not delivered the request is
\* answered 500 and nothing is undone: the store is unchanged and still
\* holds the new account, unverified, with the code that was to be mailed.
C22_MailFailureKeepsAccount ==
    [][\A c \in Clients :
        (pc[c] = "signup_mail" /\ pc'[c] = "idle" /\ resp'[c].status # 201) =>
            LET a == FindById(users', user[c].id) IN
            /\ resp'[c].status = 500
            /\ users' = users
            /\ a.id # 0 /\ a.email = req[c].email
            /\ ~a.isVerified
            /\ a.verificationToken = user[c].verificationToken
            /\ a.verificationToken # NoCode
            /\ a.verificationTokenExpires = user[c].verificationTokenExpires]_vars

\* C22 witness: the client that arrived last asked to register, was
\* answered 500, and the store holds one unverified account with its email
\* and a pending code.
C22_Witness ==
    \E c \in Clients :
        /\ last = c /\ Answered(c, "signup") /\ resp[c].status = 500
        /\ Len(users) = 1 /\ users[1].email = req[c].email
        /\ ~users[1].isVerified /\ users[1].verificationToken = verifyLog[1]
        /\ Compare(req[c].password, users[1].password)

\* a Register request with a field missing or out of the length bounds
Missing(r) == r.email = "" \/ r.password = "" \/ r.name = ""

OutOfBounds(r) ==
    \/ Len(r.email) > EmailMaxLength
    \/ Len(r.name) < NameMinLength
    \/ Len(r.name) > NameMaxLength

\* C23: a Register request with a missing field, an email longer than 50
\* characters or a name shorter than 2 or longer than 30 characters is
\* answered 400, and no account with such a field is in the store.
C23_InvalidRegisterRejected ==
    /\ \A c \in Clients :
          (Answered(c, "signup") /\ (Missing(req[c]) \/ OutOfBounds(req[c])))
              => resp[c].status = 400
    /\ \A a \in Accounts : ~Missing(a) /\ ~OutOfBounds(a)

\* C24: a Register request with a password of fewer than 6 characters is
\* rejected: every account in the store was registered with a password of
\* at least 6 characters, and no such request is answered 201.
C24_SignupMinPassword ==
    /\ \A a \in Accounts : Len(passwordLog[a.id]) >= MinPasswordLength
    /\ \A c \in Clients :
          (Answered(c, "signup") /\ Len(req[c].password) < MinPasswordLength)
              => resp[c].status # 201

\* C25: a pending verification code is accepted exactly during the 24
\* hours after the Register that issued it: VerifyEmail finds an account
\* if and only if some account holds the code and was created less than
\* 24 hours ago, and answers 400 otherwise, at exactly 24 hours included.
\* (Where no Login runs, lastLogin is the time the account was created.)
C25_VerificationWindow ==
    [][\A c \in Clients :
        Arrives(c, "verifyEmail") =>
            IF \E a \in Holders(req'[c].code) : now < a.lastLogin + VerificationTTL
            THEN pc'[c] = "verify_save" /\ user'[c] \in Holders(req'[c].code)
            ELSE pc'[c] = "idle" /\ resp'[c].status = 400 /\ users' = users]_vars

\* C25 witness: the client that arrived last presented the pending code of
\* an account exactly 24 hours after its creation and was answered 400.
C25_Witness ==
    \E c \in Clients :
        /\ last = c /\ Answered(c, "verifyEmail") /\ resp[c].status = 400
        /\ Holders(req[c].code) # {}
        /\ \A a \in Holders(req[c].code) :
              now = a.lastLogin + VerificationTTL /\ ~a.isVerified

\* C26: the reset token an account currently holds is accepted exactly
\* during the hour after the ForgotPassword that issued it: ResetPassword
\* with it and a valid password finds the account if and only if less than
\* one hour has passed, and from then on is answered 404 "Invalid or
\* expired token", the answer a token that was never issued gets.
C26_ResetWindow ==
    [][\A c \in Clients :
        (Arrives(c, "resetPassword") /\ Len(req'[c].password) >= MinPasswordLength) =>
            LET t == req'[c].token IN
            /\ (t \in ResetTokens
                  /\ \E a \in Accounts : a.id = resetLog[t].account
                                          /\ a.resetPasswordToken = t) =>
                  IF now < resetLog[t].at + ResetTTL
                  THEN pc'[c] = "reset_save" /\ user'[c].id = resetLog[t].account
                  ELSE resp'[c] = Response(404, "Invalid or expired token", NoUser)
            /\ t \notin ResetTokens =>
                  resp'[c] = Response(404, "Invalid or expired token", NoUser)]_vars

\* C26 witness: the client that arrived last presented the account's
\* current token exactly one hour after it was issued, with a valid
\* password, and was answered 404; the pair is still on the account.
C26_Witness ==
    \E c \in Clients :
        /\ last = c /\ Answered(c, "resetPassword") /\ resp[c].status = 404
        /\ Len(req[c].password) >= MinPasswordLength
        /\ req[c].token \in ResetTokens
        /\ now = resetLog[req[c].token].at + ResetTTL
        /\ \E a \in Accounts : a.resetPasswordToken = req[c].token

\* C27: a session token issued by Register or Login expires 14 days after
\* the step that issued it; check-auth lets a token signed with the secret
\* past protectRoute at every time before its expiry and answers 403 from
\* its expiry on; the cookie's maxAge is the same 14 days.
C27_SessionFourteenDays ==
    [][\A c \in Clients :
        /\ (cookie'[c] # cookie[c] /\ cookie'[c] # NoCookie) =>
              /\ req'[c].op \in {"signup", "login"}
              /\ cookie'[c].exp = now + 14 * 24
              /\ cookie'[c].key = JWT_SECRET
        /\ (Arrives(c, "checkAuth") /\ req'[c].token.key = JWT_SECRET) =>
              IF now < req'[c].token.exp
              THEN resp'[c].status \in {200, 404}
              ELSE resp'[c].status = 403
        /\ CookieMaxAge = 14 * 24]_vars

\* C27 witness: the client that arrived last presented the cookie the
\* server gave it exactly 14 days earlier, for an account that is in the
\* store, and was answered 403.
C27_Witness ==
    \E c \in Clients :
        /\ last = c /\ Answered(c, "checkAuth") /\ resp[c].status = 403
        /\ req[c].token = cookie[c] /\ cookie[c].key = JWT_SECRET
        /\ now = cookie[c].exp /\ now = 14 * 24
        /\ \E a \in Accounts : a.id = cookie[c].id

\* this step changes no account but the one with this id, and of that one
\* no field outside the given ones
Frame(id, fields) ==
    /\ Len(users') = Len(users)
    /\ \A i \in 1..Len(users) :
          IF users[i].id = id
          THEN \A f \in DOMAIN users[i] \ fields : users'[i][f] = users[i][f]
          ELSE users'[i] = users[i]

\* client c's handler completes the save it was suspended at
Saves(c, label) == pc[c] = label /\ pc'[c] # label

SaveLabels == {"signup_save", "verify_save", "login_save", "forgot_save", "reset_save"}

Verified(a) ==
    a.isVerified /\ a.verificationToken = NoCode /\ a.verificationTokenExpires = NoDate

\* C29: when VerifyEmail interleaves with ForgotPassword or Login on one
\* account, neither save undoes the other. A save by a handler that read the
\* account before it was verified leaves it verified and adds its own
\* fields; the save of VerifyEmail by a handler that read the account before
\* the other one wrote leaves the reset pair and lastLogin as stored.
C29_NoLostUpdate ==
    [][\A c \in Clients :
         LET before == FindById(users, user[c].id)
             after  == FindById(users', user[c].id)
         IN /\ (Saves(c, "forgot_save") /\ Verified(before)) =>
                  /\ Verified(after)
                  /\ after.resetPasswordToken = user'[c].resetPasswordToken
                  /\ after.resetPasswordToken # NoToken
                  /\ after.resetPasswordExpires = now + ResetTTL
            /\ (Saves(c, "login_save") /\ Verified(before)) =>
                  /\ Verified(after)
                  /\ after.lastLogin = user[c].lastLogin
            /\ Saves(c, "verify_save") =>
                  /\ Verified(after)
                  /\ after.resetPasswordToken = before.resetPasswordToken
                  /\ after.resetPasswordExpires = before.resetPasswordExpires
                  /\ after.lastLogin = before.lastLogin]_vars

\* C29 witness: VerifyEmail and ForgotPassword both read the account while
\* it was unverified and had no reset pair, and both have saved: the account
\* is verified and carries the reset pair.
C29_Witness ==
    \E c, d \in Clients :
        /\ c # d /\ pc[c] = "verify_mail" /\ pc[d] = "forgot_mail"
        /\ user[c].id = user[d].id
        /\ ~user[d].isVerified /\ user[d].verificationToken # NoCode
        /\ user[c].resetPasswordToken = NoToken
        /\ Verified(FindById(users, user[c].id))
        /\ FindById(users, user[c].id).resetPasswordToken = user[d].resetPasswordToken
        /\ user[d].resetPasswordToken # NoToken

\* C29 witness, Login: Login answered 200 from a read made before the
\* account was verified, while VerifyEmail has saved; the account is verified
\* and carries the lastLogin of that Login.
C29_WitnessLogin ==
    \E c, d \in Clients :
        /\ c # d /\ pc[c] = "verify_mail" /\ last = d
        /\ Answered(d, "login") /\ resp[d].status = 200
        /\ resp[d].user.id = user[c].id /\ ~resp[d].user.isVerified
        /\ user[c].lastLogin # resp[d].user.lastLogin
        /\ Verified(FindById(users, user[c].id))
        /\ FindById(users, user[c].id).lastLogin = resp[d].user.lastLogin

\* C30: the route guard of "/" renders Home only for a store with
\* isAuthenticated and a verified user; with isAuthenticated false it
\* renders a redirect to /login, and with isAuthenticated true and a user
\* that is not verified a redirect to /verify-email.
C30_RouteGuard ==
    \A c \in Clients :
        /\ element[c].type = "Home" =>
              /\ location[c] = "/"
              /\ store[c].isAuthenticated
              /\ store[c].user.id # 0 /\ store[c].user.isVerified
        /\ (location[c] = "/" /\ ~store[c].isCheckingAuth) =>
              element[c] = IF ~store[c].isAuthenticated
                           THEN [type |-> "Navigate", to |-> "/login"]
                           ELSE IF store[c].user.id = 0 \/ ~store[c].user.isVerified
                           THEN [type |-> "Navigate", to |-> "/verify-email"]
                           ELSE [type |-> "Home", to |-> ""]

\* C30 witness: the page shows Home to a user who signed up and verified
\* the address in it.
C30_Witness ==
    \E c \in Clients :
        /\ element[c].type = "Home"
        /\ store[c].isAuthenticated /\ store[c].user.isVerified
        /\ \E a \in Accounts : a.id = store[c].user.id /\ a.isVerified

\* C30 witness, unverified: an authenticated user who has not verified the
\* address asked for "/" and stands at /verify-email.
C30_WitnessUnverified ==
    \E c \in Clients :
        /\ store[c].isAuthenticated /\ store[c].user.id # 0
        /\ ~store[c].user.isVerified
        /\ element[c] = [type |-> "Navigate", to |-> "/verify-email"]
        /\ location[c] = "/"

\* C31: whenever a step of signup sets the jwt cookie, the account the
\* token names is in the store after that step.
C31_CookieOnlyForSavedAccount ==
    [][\A c \in Clients :
         (req[c].op = "signup" /\ cookie'[c] # cookie[c] /\ cookie'[c] # NoCookie) =>
            \E i \in 1..Len(users') : users'[i].id = cookie'[c].id]_vars

\* the store holds reset token t, unexpired
Usable(t) == FindByResetToken(users, t, now).id # 0

\* the forgotPassword handler that generated reset token t has not answered
Undelivered(t) ==
    \E c \in Clients : pc[c] = "forgot_mail" /\ user[c].resetPasswordToken = t

\* C32: where every reset mail is delivered, a reset token whose
\* ForgotPassword was answered is held by its account, unexpired, for as
\* long as its hour is not over, no reset was saved with it and no later
\* ForgotPassword has saved a token for the account.
C32_DeliveredTokenStaysUsable ==
    \A t \in ResetTokens :
        ( /\ ~Undelivered(t)
          /\ now < resetLog[t].at + ResetTTL
          /\ ~resetLog[t].used
          /\ \A s \in Siblings(t) : s <= t )
            => /\ Usable(t)
               /\ FindByResetToken(users, t, now).id = resetLog[t].account

\* client c's verifyEmail handler has called sendWelcomeEmail for the account
\* with this id: it is suspended at the call, or the mail went out and the
\* handler answered 200
Welcomed(c, id) ==
    /\ req[c].op = "verifyEmail"
    /\ \/ pc[c] = "verify_mail" /\ user[c].id = id
       \/ pc[c] = "idle" /\ resp[c].status = 200 /\ resp[c].user.id = id

\* C33: no two verifyEmail handlers call sendWelcomeEmail for the same
\* account.
C33_WelcomeMailOnce ==
    \A c \in Clients, d \in Clients :
        \A a \in Accounts : (Welcomed(c, a.id) /\ Welcomed(d, a.id)) => c = d

\* a verifyEmail handler has found the account with this id and not yet saved
Consuming(id) == \E c \in Clients : pc[c] = "verify_save" /\ user[c].id = id

\* the account is unverified and its code has expired without a VerifyEmail
\* call having found it in time
Lapsed(a) ==
    /\ ~a.isVerified
    /\ a.verificationTokenExpires # NoDate /\ a.verificationTokenExpires <= now
    /\ ~Consuming(a.id)

\* C34: no step of Register, Login, VerifyEmail, ForgotPassword or
\* ResetPassword gives an account whose code has lapsed a new code or a new
\* expiry, finds it by its code, or verifies it; as the clock only advances
\* the account stays lapsed, so it is unverified for ever.
C34_NoReissue ==
    [][\A i \in 1..Len(users) :
         Lapsed(users[i]) =>
            /\ users'[i].id = users[i].id
            /\ ~users'[i].isVerified
            /\ users'[i].verificationToken = users[i].verificationToken
            /\ users'[i].verificationTokenExpires = users[i].verificationTokenExpires
            /\ \A c \in Clients : ~(pc'[c] = "verify_save" /\ user'[c].id = users[i].id)
            /\ now' >= now]_vars

\* C34 witness: the account's code has lapsed; one client has logged in to
\* the account and the other, arriving last with the code, was answered 400.
C34_Witness ==
    \E c \in Clients, d \in Clients, a \in Accounts :
        /\ Lapsed(a)
        /\ last = c /\ Answered(c, "verifyEmail") /\ resp[c].status = 400
        /\ req[c].code = a.verificationToken
        /\ Answered(d, "login") /\ resp[d].status = 200 /\ resp[d].user.id = a.id

\* a reset of the password of the account with this id has been saved
PasswordReset(id) == \E r \in ResetTokens : resetLog[r].account = id /\ resetLog[r].used

\* C35: a session token of a stored account, presented to check-auth by a
\* client whose last request was Logout, or after a ResetPassword of the
\* account was saved, is accepted (200 with the account) as long as its 14
\* days are not over, and answered 403 from then on.
C35_SessionsNotRevoked ==
    [][\A c \in Clients :
         LET t == req'[c].token IN
         ( /\ Arrives(c, "checkAuth")
           /\ t.key = JWT_SECRET /\ \E a \in Accounts : a.id = t.id
           /\ req[c].op = "logout" \/ PasswordReset(t.id) ) =>
              IF now < t.exp
              THEN resp'[c].status = 200 /\ resp'[c].user.id = t.id
              ELSE resp'[c].status = 403]_vars

\* C35 witness: the account's password was reset with a token issued after
\* hour 0, and the session issued at hour 0 was then accepted by check-auth.
C35_Witness ==
    \E c \in Clients, r \in ResetTokens :
        /\ last = c /\ Answered(c, "checkAuth") /\ resp[c].status = 200
        /\ req[c].token.exp = SessionTTL
        /\ resetLog[r].used /\ resetLog[r].at > 0
        /\ resetLog[r].account = req[c].token.id
        /\ passwordLog[req[c].token.id] = "longenough1"

\* C35 witness, Logout: the only client to make requests signed up, logged
\* out, and presented the session of its signup again: its browser has no
\* cookie and the session was accepted.
C35_WitnessLogout ==
    \E c \in Clients :
        /\ last = c /\ Answered(c, "checkAuth") /\ resp[c].status = 200
        /\ cookie[c] = NoCookie
        /\ req[c].token = generateTokenAndSetCookie(resp[c].user, resp[c].user.lastLogin)
        /\ nreq = 3 /\ \A d \in Clients \ {c} : req[d] = NoRequest

\* C36: whenever the page's store has no action waiting, isAuthenticated is
\* true if and only if user is not null.
C36_AuthenticatedIffUser ==
    \A c \in Clients :
        call[c] = <<>> => (store[c].isAuthenticated <=> store[c].user # NoUser)

\* the store actions that set isLoading while their request is on its way
Loading == Submitted \cup {"logout"}

\* C37: isLoading is true whenever a signup, login, logout, verifyEmail,
\* forgotPassword or resetPassword call of the page is waiting for its
\* response, two of them at once included, and false when none is.
C37_LoadingWhilePending ==
    \A c \in Clients :
        store[c].isLoading <=> \E i \in 1..Len(call[c]) : call[c][i].op \in Loading

\* the store actions whose success branch sets isAuthenticated to true
Authenticating == {"signup", "login", "verifyEmail", "checkAuth"}

\* C38: whenever a store action sets isAuthenticated to true on the
\* response of its request, the browser holds a jwt cookie that protectRoute
\* accepts and that names an account of the store, so that a check-auth
\* made next succeeds.
C38_AuthenticatedHasSession ==
    [][\A c \in Clients :
         (/\ call[c] # <<>> /\ call'[c] = Tail(call[c])
          /\ call[c][1].op \in Authenticating
          /\ Ok(resp[c])
          /\ store'[c].isAuthenticated) =>
            /\ protectRoute(cookie[c], now) = NoResponse
            /\ FindById(users, cookie[c].id).id # 0]_vars

====
